---- MODULE Spec2Model ----
(***************************************************************************)
(* Model of backend/services/reports/reporting_core.py: the report         *)
(* aggregation engine generate_report_data and its helpers.                *)
(*                                                                         *)
(* Decimal amounts are exact integers in their smallest unit (USD: cents,  *)
(* BTC: satoshis).  Python's float() is modelled bit-exactly as IEEE-754   *)
(* binary64 with round-to-nearest-even: a float is a sign, an exponent and *)
(* a 53-bit mantissa.  Nullable fields are <<>> (None) or <<v>>.  Strings  *)
(* that the code lower-cases or searches are sequences of characters.      *)
(***************************************************************************)
EXTENDS Integers, Sequences, FiniteSets, TLC

VARIABLES
    db,      \* the ledger store: transactions, lots, lot disposals, ledger entries
    pc,      \* per call: the statement of generate_report_data it is at
    year,    \* per call: the year argument
    txns,    \* per call: the local transaction list
    res,     \* per call: the locals holding the parts of the dataset
    ret,     \* per call: the returned dataset, None until it returns
    err,     \* per call: the exception that ended it, None if none
    trace,   \* per call: the external calls it has issued, in order
    seen,    \* per call: the ledger states its queries have read
    clock,   \* the wall clock, in seconds
    price_feed  \* the valuation price the environment holds for the cutoff

vars == <<db, pc, year, txns, res, ret, err, trace, seen, clock, price_feed>>

Calls == {1, 2}

(***************************************************************************)
(* Nullable values.                                                        *)
(***************************************************************************)
None == <<>>
Some(v) == <<v>>
IsNone(o) == o = <<>>
Val(o) == o[1]

(***************************************************************************)
(* IEEE-754 binary64, as produced by Python's float(Decimal) and float +.  *)
(***************************************************************************)
MantBits == 53
FracLen == 96
UsdScale == 100
BtcScale == 100000000

Max(a, b) == IF a >= b THEN a ELSE b

Zeros(k) == [i \in 1..k |-> 0]

RECURSIVE IntBits(_)
IntBits(k) == IF k = 0 THEN <<>> ELSE Append(IntBits(k \div 2), k % 2)

\* k >= 1 binary digits of r/den (0 <= r < den), and the remainder left.
RECURSIVE FracBits(_, _, _)
FracBits(r, den, k) ==
    IF k = 1 THEN <<<<(2 * r) \div den>>, (2 * r) % den>>
    ELSE LET h == k \div 2
             A == FracBits(r, den, h)
             B == IF A[2] >= 0 THEN FracBits(A[2], den, k - h) ELSE <<>>
         IN <<A[1] \o B[1], B[2]>>

\* a[i..j] + b[i..j] + cin, most significant bit first: <<carry, bits>>.
RECURSIVE AddRange(_, _, _, _, _)
AddRange(a, b, i, j, cin) ==
    IF i = j THEN <<(a[i] + b[i] + cin) \div 2, <<(a[i] + b[i] + cin) % 2>>>>
    ELSE LET mid == (i + j) \div 2
             R == AddRange(a, b, mid + 1, j, cin)
             L == IF R[1] = 1 THEN AddRange(a, b, i, mid, 1)
                              ELSE AddRange(a, b, i, mid, 0)
         IN <<L[1], L[2] \o R[2]>>

\* a[i..j] - b[i..j] - bin: <<borrow, bits>>.
RECURSIVE SubRange(_, _, _, _, _)
SubRange(a, b, i, j, bin) ==
    IF i = j THEN <<IF a[i] - b[i] - bin < 0 THEN 1 ELSE 0,
                    <<(a[i] - b[i] - bin + 2) % 2>>>>
    ELSE LET mid == (i + j) \div 2
             R == SubRange(a, b, mid + 1, j, bin)
             L == IF R[1] = 1 THEN SubRange(a, b, i, mid, 1)
                              ELSE SubRange(a, b, i, mid, 0)
         IN <<L[1], L[2] \o R[2]>>

PadTo(a, n) == Zeros(n - Len(a)) \o a

AddBits(a, b) ==
    LET n == Max(Len(a), Len(b))
        r == AddRange(PadTo(a, n), PadTo(b, n), 1, n, 0)
    IN <<r[1]>> \o r[2]

SubBits(a, b) ==
    LET n == Max(Len(a), Len(b))
    IN SubRange(PadTo(a, n), PadTo(b, n), 1, n, 0)[2]

MagLess(a, b) ==
    LET n == Max(Len(a), Len(b))
        x == PadTo(a, n)
        y == PadTo(b, n)
    IN \E i \in 1..n : x[i] < y[i] /\ \A j \in 1..(i - 1) : x[j] = y[j]

HasOne(a) == \E i \in 1..Len(a) : a[i] = 1

Strip(a) ==
    IF ~HasOne(a) THEN <<>>
    ELSE LET f == CHOOSE i \in 1..Len(a) : a[i] = 1 /\ \A j \in 1..(i - 1) : a[j] = 0
         IN SubSeq(a, f, Len(a))

FZero == [s |-> 0, e |-> 0, m |-> <<>>]

\* Round the magnitude `bits' (its first bit weighs 2^topExp; `sticky' says
\* that non-zero digits follow the last one) to the nearest float, ties to even.
RoundBits(sgn, bits, topExp, sticky) ==
    LET b == Strip(bits)
        n == Len(b)
        e0 == topExp - (Len(bits) - n)
    IN IF n = 0 THEN FZero
       ELSE IF n <= MantBits
       THEN [s |-> sgn, e |-> e0, m |-> b \o Zeros(MantBits - n)]
       ELSE LET mant == SubSeq(b, 1, MantBits)
                guard == b[MantBits + 1]
                st == sticky \/ HasOne(SubSeq(b, MantBits + 2, n))
                up == guard = 1 /\ (st \/ mant[MantBits] = 1)
                inc == AddBits(mant, <<1>>)
            IN IF ~up THEN [s |-> sgn, e |-> e0, m |-> mant]
               ELSE IF inc[1] = 1
               THEN [s |-> sgn, e |-> e0 + 1, m |-> SubSeq(inc, 1, MantBits)]
               ELSE [s |-> sgn, e |-> e0, m |-> Tail(inc)]

\* float(Decimal) of the decimal n/den: the nearest binary64.
ToFloat(n, den) ==
    IF n = 0 THEN FZero
    ELSE LET a == IF n < 0 THEN 0 - n ELSE n
             I == IntBits(a \div den)
             fb == FracBits(a % den, den, FracLen)
         IN RoundBits(IF n < 0 THEN 1 ELSE 0, I \o fb[1], Len(I) - 1, fb[2] # 0)

\* x + y on Python floats.
FAdd(x, y) ==
    IF x.m = <<>> THEN y
    ELSE IF y.m = <<>> THEN x
    ELSE LET hi == IF x.e >= y.e THEN x ELSE y
             lo == IF x.e >= y.e THEN y ELSE x
             H == hi.m \o Zeros(hi.e - lo.e)
             L == PadTo(lo.m, Len(H))
         IN IF hi.s = lo.s
            THEN RoundBits(hi.s, AddBits(H, L), hi.e + 1, FALSE)
            ELSE IF MagLess(H, L)
                 THEN RoundBits(lo.s, SubBits(L, H), hi.e, FALSE)
                 ELSE RoundBits(hi.s, SubBits(H, L), hi.e, FALSE)

(***************************************************************************)
(* Python strings: str.lower(), `sub in s', truthiness.                    *)
(***************************************************************************)
UpperAlpha == <<"A","B","C","D","E","F","G","H","I","J","K","L","M",
                "N","O","P","Q","R","S","T","U","V","W","X","Y","Z">>
LowerAlpha == <<"a","b","c","d","e","f","g","h","i","j","k","l","m",
                "n","o","p","q","r","s","t","u","v","w","x","y","z">>

LowerChar(c) ==
    IF \E i \in 1..26 : UpperAlpha[i] = c
    THEN LowerAlpha[CHOOSE i \in 1..26 : UpperAlpha[i] = c]
    ELSE c

Lower(str) == [i \in 1..Len(str) |-> LowerChar(str[i])]

Contains(sub, str) ==
    \E i \in 0..(Len(str) - Len(sub)) :
        \A k \in 1..Len(sub) : str[i + k] = sub[k]

\* truthiness of a nullable string: neither None nor ""
TruthyStr(o) == ~IsNone(o) /\ Val(o) # <<>>

\* truthiness of a nullable Decimal: neither None nor zero
TruthyNum(o) == ~IsNone(o) /\ Val(o) # 0

\* `x or Decimal("0.0")' and `x or 0'
OrZero(o) == IF TruthyNum(o) THEN Val(o) ELSE 0

\* datetime.isoformat()
IsoFormat(t) == <<"iso", t>>
IsoOrNone(o) == IF IsNone(o) THEN None ELSE Some(IsoFormat(Val(o)))

s_mining == <<"m","i","n","i","n","g">>
s_reward == <<"r","e","w","a","r","d">>
s_interest == <<"i","n","t","e","r","e","s","t">>
s_gift == <<"g","i","f","t">>
s_donation == <<"d","o","n","a","t","i","o","n">>
s_lost == <<"l","o","s","t">>
s_expenses == <<"e","x","p","e","n","s","e","s">>

(***************************************************************************)
(* Capital gains summary.                                                  *)
(***************************************************************************)
ZeroGains == [disposal_count |-> 0,
              st_proceeds |-> 0, st_basis |-> 0, st_gain |-> 0,
              lt_proceeds |-> 0, lt_basis |-> 0, lt_gain |-> 0]

IsDisposal(tx) ==
    /\ tx.type \in {"Sell", "Withdrawal"}
    /\ ~IsNone(tx.realized_gain_usd)

\* everything but "SHORT" is long-term
IsLongTerm_notShort(tx) == tx.holding_period # Some("SHORT")

IsLongTerm(tx) == tx.holding_period = Some("LONG")

GainsStep(acc, tx) ==
    IF ~IsDisposal(tx) THEN acc
    ELSE LET proceeds == OrZero(tx.proceeds_usd)
             basis == OrZero(tx.cost_basis_usd)
             gain == OrZero(tx.realized_gain_usd)
         IN IF IsLongTerm(tx)
            THEN [acc EXCEPT !.disposal_count = @ + 1,
                             !.lt_proceeds = @ + proceeds,
                             !.lt_basis = @ + basis,
                             !.lt_gain = @ + gain]
            ELSE [acc EXCEPT !.disposal_count = @ + 1,
                             !.st_proceeds = @ + proceeds,
                             !.st_basis = @ + basis,
                             !.st_gain = @ + gain]

RECURSIVE GainsLoop(_, _)
GainsLoop(list, n) ==
    IF n = 0 THEN ZeroGains ELSE GainsStep(GainsLoop(list, n - 1), list[n])

\* the long-term bucket is left out of the total
TotalOf_shortOnly(st, lt) == st

TotalOf(st, lt) == st + lt

UsdFloat(cents) == ToFloat(cents, UsdScale)
BtcFloat(sats) == ToFloat(sats, BtcScale)

_build_capital_gains_summary(list) ==
    LET acc == GainsLoop(list, Len(list))
        total_proceeds == TotalOf(acc.st_proceeds, acc.lt_proceeds)
        total_basis == TotalOf(acc.st_basis, acc.lt_basis)
        net_gains == TotalOf(acc.st_gain, acc.lt_gain)
    IN [number_of_disposals |-> acc.disposal_count,
        short_term |-> [proceeds |-> UsdFloat(acc.st_proceeds),
                        basis |-> UsdFloat(acc.st_basis),
                        gain |-> UsdFloat(acc.st_gain)],
        long_term |-> [proceeds |-> UsdFloat(acc.lt_proceeds),
                       basis |-> UsdFloat(acc.lt_basis),
                       gain |-> UsdFloat(acc.lt_gain)],
        total |-> [proceeds |-> UsdFloat(total_proceeds),
                   basis |-> UsdFloat(total_basis),
                   gain |-> UsdFloat(net_gains)]]

(***************************************************************************)
(* Income summary.                                                         *)
(***************************************************************************)
ZeroIncome == [total_income |-> 0, mining_total |-> 0,
               reward_total |-> 0, other_income |-> 0]

IsIncome(tx) == tx.type = "Deposit" /\ TruthyStr(tx.source)

\* "reward" is tested before "mining"
IncomeBucket_rewardFirst(src_lower) ==
    IF Contains(s_reward, src_lower) \/ Contains(s_interest, src_lower) THEN "Reward"
    ELSE IF Contains(s_mining, src_lower) THEN "Mining"
         ELSE "Other"

IncomeBucket(src_lower) ==
    IF Contains(s_mining, src_lower) THEN "Mining"
    ELSE IF Contains(s_reward, src_lower) \/ Contains(s_interest, src_lower)
         THEN "Reward"
         ELSE "Other"

IncomeStep(acc, tx) ==
    IF ~IsIncome(tx) THEN acc
    ELSE LET deposit_usd_value == OrZero(tx.cost_basis_usd)
             bucket == IncomeBucket(Lower(Val(tx.source)))
         IN IF bucket = "Mining"
            THEN [acc EXCEPT !.mining_total = @ + deposit_usd_value,
                             !.total_income = @ + deposit_usd_value]
            ELSE IF bucket = "Reward"
            THEN [acc EXCEPT !.reward_total = @ + deposit_usd_value,
                             !.total_income = @ + deposit_usd_value]
            ELSE [acc EXCEPT !.other_income = @ + deposit_usd_value,
                             !.total_income = @ + deposit_usd_value]

RECURSIVE IncomeLoop(_, _)
IncomeLoop(list, n) ==
    IF n = 0 THEN ZeroIncome ELSE IncomeStep(IncomeLoop(list, n - 1), list[n])

_build_income_summary(list) ==
    LET acc == IncomeLoop(list, Len(list))
    IN [Mining |-> UsdFloat(acc.mining_total),
        Reward |-> UsdFloat(acc.reward_total),
        Other |-> UsdFloat(acc.other_income),
        Total |-> UsdFloat(acc.total_income)]

(***************************************************************************)
(* Asset summary: a fixed row.                                             *)
(***************************************************************************)
_build_asset_summary(list) ==
    <<[asset |-> "BTC", profit |-> UsdFloat(3203199),
       loss |-> UsdFloat(315070), net |-> UsdFloat(2888129)]>>

(***************************************************************************)
(* Detail projectors over the transaction list.                            *)
(***************************************************************************)
\* the rows f(tx) of the transactions of `list' that satisfy keep, in order
Project(list, keep(_), f(_)) ==
    LET sel == SelectSeq(list, keep)
    IN [i \in 1..Len(sel) |-> f(sel[i])]

KeepGainRow(tx) ==
    /\ tx.type \in {"Sell", "Withdrawal"}
    /\ ~(IsNone(tx.realized_gain_usd) \/ Val(tx.realized_gain_usd) = 0)

GainRow(tx) ==
    [tx_id |-> tx.id,
     date_sold |-> IsoOrNone(tx.timestamp),
     date_acquired |-> "(multiple lots)",
     asset |-> "BTC",
     amount |-> BtcFloat(OrZero(tx.amount)),
     cost |-> UsdFloat(OrZero(tx.cost_basis_usd)),
     proceeds |-> UsdFloat(OrZero(tx.proceeds_usd)),
     gain_loss |-> UsdFloat(OrZero(tx.realized_gain_usd)),
     holding_period |-> tx.holding_period]

_build_capital_gains_transactions(list) ==
    Project(list, KeepGainRow, GainRow)

IncomeRowType(source) ==
    IF Contains(s_reward, Lower(source)) THEN "Reward" ELSE "Other"

IncomeRow(tx) ==
    [tx_id |-> tx.id,
     date |-> IsoOrNone(tx.timestamp),
     asset |-> "BTC",
     amount |-> BtcFloat(OrZero(tx.amount)),
     value_usd |-> UsdFloat(OrZero(tx.cost_basis_usd)),
     source |-> Val(tx.source),
     type |-> IncomeRowType(Val(tx.source))]

_build_income_transactions(list) ==
    Project(list, IsIncome, IncomeRow)

\* the purpose is searched for the words instead of compared with them
IsGiftDonationLost_contains(tx) ==
    /\ tx.type = "Withdrawal"
    /\ TruthyStr(tx.purpose)
    /\ \E w \in {s_gift, s_donation, s_lost} : Contains(w, Lower(Val(tx.purpose)))

IsGiftDonationLost(tx) ==
    /\ tx.type = "Withdrawal"
    /\ TruthyStr(tx.purpose)
    /\ Lower(Val(tx.purpose)) \in {s_gift, s_donation, s_lost}

GiftRow(tx) ==
    [tx_id |-> tx.id,
     date |-> IsoOrNone(tx.timestamp),
     asset |-> "BTC",
     amount |-> BtcFloat(OrZero(tx.amount)),
     value_usd |-> UsdFloat(OrZero(tx.proceeds_usd)),
     purpose |-> Val(tx.purpose)]

_build_gifts_donations_lost(list) ==
    Project(list, IsGiftDonationLost, GiftRow)

IsExpense(tx) ==
    /\ tx.type = "Withdrawal"
    /\ TruthyStr(tx.purpose)
    /\ Lower(Val(tx.purpose)) = s_expenses

ExpenseRow(tx) ==
    [tx_id |-> tx.id,
     date |-> IsoOrNone(tx.timestamp),
     asset |-> "BTC",
     amount |-> BtcFloat(OrZero(tx.amount)),
     value_usd |-> UsdFloat(OrZero(tx.proceeds_usd)),
     type |-> "Expense"]

_build_expenses_list(list) ==
    Project(list, IsExpense, ExpenseRow)

(***************************************************************************)
(* Data sources: sorted(list(set(...))) on Python strings (code points).   *)
(***************************************************************************)
Ord(c) ==
    IF c = " " THEN 32
    ELSE IF \E i \in 1..26 : UpperAlpha[i] = c
    THEN 64 + (CHOOSE i \in 1..26 : UpperAlpha[i] = c)
    ELSE IF \E i \in 1..26 : LowerAlpha[i] = c
    THEN 96 + (CHOOSE i \in 1..26 : LowerAlpha[i] = c)
    ELSE 0

StrLess(a, b) ==
    \/ /\ Len(a) < Len(b)
       /\ \A k \in 1..Len(a) : a[k] = b[k]
    \/ \E i \in 1..Len(a) :
          /\ i <= Len(b)
          /\ Ord(a[i]) < Ord(b[i])
          /\ \A k \in 1..(i - 1) : a[k] = b[k]

RECURSIVE SortedStrs(_)
SortedStrs(S) ==
    IF S = {} THEN <<>>
    ELSE LET m == CHOOSE a \in S : \A b \in S : a = b \/ StrLess(a, b)
         IN <<m>> \o SortedStrs(S \ {m})

\* the sources are listed as met, neither deduplicated nor sorted
_gather_data_sources_asMet(list) ==
    LET kept == SelectSeq(list, LAMBDA tx : TruthyStr(tx.source))
    IN [i \in 1..Len(kept) |-> Val(kept[i].source)]

_gather_data_sources(list) ==
    SortedStrs({Val(list[i].source) : i \in {k \in 1..Len(list) : TruthyStr(list[k].source)}})

(***************************************************************************)
(* All transactions (pass-through columns account ids, fee currency,       *)
(* is_locked, created_at and updated_at are copied verbatim and left out). *)
(***************************************************************************)
KeepAll(tx) == TRUE

AllTxRow(tx) ==
    [id |-> tx.id,
     timestamp |-> IsoOrNone(tx.timestamp),
     type |-> tx.type,
     amount |-> BtcFloat(OrZero(tx.amount)),
     fee_amount |-> UsdFloat(OrZero(tx.fee_amount)),
     cost_basis_usd |-> UsdFloat(OrZero(tx.cost_basis_usd)),
     proceeds_usd |-> UsdFloat(OrZero(tx.proceeds_usd)),
     realized_gain_usd |-> IF TruthyNum(tx.realized_gain_usd)
                           THEN UsdFloat(OrZero(tx.realized_gain_usd))
                           ELSE FZero,
     holding_period |-> tx.holding_period,
     source |-> tx.source,
     purpose |-> tx.purpose]

_build_all_transactions_data(list) == Project(list, KeepAll, AllTxRow)

(***************************************************************************)
(* Python Decimal arithmetic (default context: 28 significant digits,      *)
(* ROUND_HALF_EVEN) on digit sequences, and quantize(0.01, ROUND_HALF_DOWN)*)
(* A decimal is [d |-> digits, most significant first, x |-> exponent]:    *)
(* its value is the integer written by d times 10^x.                       *)
(***************************************************************************)
DecPrec == 28
DecFracLen == 48
TenK == 10000

RECURSIVE IntDigits(_)
IntDigits(k) == IF k = 0 THEN <<>> ELSE Append(IntDigits(k \div 10), k % 10)

\* k >= 1 decimal digits of r/den (0 <= r < den), and the remainder left.
RECURSIVE FracDigits(_, _, _)
FracDigits(r, den, k) ==
    IF k = 1 THEN <<<<(10 * r) \div den>>, (10 * r) % den>>
    ELSE LET h == k \div 2
             A == FracDigits(r, den, h)
             B == IF A[2] >= 0 THEN FracDigits(A[2], den, k - h) ELSE <<>>
         IN <<A[1] \o B[1], B[2]>>

\* d[i..j] * c + cin: <<carry, digits>>.
RECURSIVE MulRange(_, _, _, _, _)
MulRange(d, c, i, j, cin) ==
    IF i = j THEN <<(d[i] * c + cin) \div 10, <<(d[i] * c + cin) % 10>>>>
    ELSE LET mid == (i + j) \div 2
             R == MulRange(d, c, mid + 1, j, cin)
             L == IF R[1] >= 0 THEN MulRange(d, c, i, mid, R[1]) ELSE <<>>
         IN <<L[1], L[2] \o R[2]>>

\* d[i..j] + cin: <<carry, digits>>.
RECURSIVE IncRange(_, _, _, _)
IncRange(d, i, j, cin) ==
    IF i = j THEN <<(d[i] + cin) \div 10, <<(d[i] + cin) % 10>>>>
    ELSE LET mid == (i + j) \div 2
             R == IncRange(d, mid + 1, j, cin)
             L == IF R[1] >= 0 THEN IncRange(d, i, mid, R[1]) ELSE <<>>
         IN <<L[1], L[2] \o R[2]>>

RECURSIVE DigitsVal(_, _)
DigitsVal(d, n) == IF n = 0 THEN 0 ELSE 10 * DigitsVal(d, n - 1) + d[n]

NonZero(d) == \E i \in 1..Len(d) : d[i] # 0

StripDigits(d) ==
    IF ~NonZero(d) THEN <<>>
    ELSE LET f == CHOOSE i \in 1..Len(d) : d[i] # 0 /\ \A j \in 1..(i - 1) : d[j] = 0
         IN SubSeq(d, f, Len(d))

\* round the digits d * 10^x (non-zero digits follow when sticky) to DecPrec
\* significant digits, ties to even
DecRound(d, x, sticky) ==
    LET b == StripDigits(d)
        n == Len(b)
    IN IF n <= DecPrec THEN [d |-> b, x |-> x]
       ELSE LET keep == SubSeq(b, 1, DecPrec)
                rest == SubSeq(b, DecPrec + 1, n)
                more == sticky \/ NonZero(SubSeq(rest, 2, Len(rest)))
                up == \/ rest[1] > 5
                      \/ rest[1] = 5 /\ (more \/ keep[DecPrec] % 2 = 1)
                inc == IncRange(keep, 1, DecPrec, 1)
            IN [d |-> IF up THEN (IF inc[1] = 1 THEN <<1>> ELSE <<>>) \o inc[2]
                            ELSE keep,
                x |-> x + (n - DecPrec)]

\* Decimal(r) / Decimal(t) for integers r >= 0, t > 0
DecDiv(r, t) ==
    LET I == IntDigits(r \div t)
        fd == FracDigits(r % t, t, DecFracLen)
    IN DecRound(I \o fd[1], 0 - DecFracLen, fd[2] # 0)

\* Decimal(c) * f for an integer c >= 0
DecMulInt(c, f) ==
    IF c = 0 \/ f.d = <<>> THEN [d |-> <<>>, x |-> 0]
    ELSE LET m == MulRange(f.d, c, 1, Len(f.d), 0)
         IN DecRound(IntDigits(m[1]) \o m[2], f.x, FALSE)

\* f.quantize(Decimal("1"), ROUND_HALF_DOWN) as an integer, f >= 0
QuantizeHalfDown(f) ==
    IF f.d = <<>> THEN 0
    ELSE IF f.x >= 0 THEN DigitsVal(f.d \o [i \in 1..f.x |-> 0], Len(f.d) + f.x)
    ELSE LET n == Len(f.d)
             k == n + f.x
             ip == IF k <= 0 THEN 0 ELSE DigitsVal(f.d, k)
             fr == IF k <= 0 THEN [i \in 1..(0 - k) |-> 0] \o f.d
                             ELSE SubSeq(f.d, k + 1, n)
             up == \/ fr[1] > 5
                   \/ fr[1] = 5 /\ NonZero(SubSeq(fr, 2, Len(fr)))
         IN IF up THEN ip + 1 ELSE ip

\* (cost_basis_usd * (rem_btc / total_btc)).quantize(Decimal("0.01"),
\* ROUND_HALF_DOWN) in cents
PartialCost(cost, rem, total) == QuantizeHalfDown(DecMulInt(cost, DecDiv(rem, total)))

\* (rem_btc * price).quantize(Decimal("0.01"), ROUND_HALF_DOWN) in cents,
\* for rem in satoshis and price in cents below 10^8; the product is exact
CurValue(rem, price) ==
    LET rl == rem % BtcScale
        a == rl \div TenK
        b == rl % TenK
        c == price \div TenK
        d == price % TenK
        m == a * d + b * c
        low == (m % TenK) * TenK + b * d
        q == a * c + (m \div TenK) + (low \div BtcScale)
    IN (rem \div BtcScale) * price + q
       + (IF low % BtcScale > BtcScale \div 2 THEN 1 ELSE 0)

(***************************************************************************)
(* The date window and the queries.  Time is counted in ticks; a year has  *)
(* TicksPerYear of them, the last one lying after Dec 31 23:59:59.         *)
(***************************************************************************)
TicksPerYear == 4

start_dt(y) == y * TicksPerYear
end_dt(y) == y * TicksPerYear + (TicksPerYear - 2)

\* the last second of the window is left out
InWindow_exclusiveEnd(ts, lo, hi) == ~IsNone(ts) /\ Val(ts) >= lo /\ Val(ts) < hi

InWindow(ts, lo, hi) == ~IsNone(ts) /\ Val(ts) >= lo /\ Val(ts) <= hi

\* ORDER BY timestamp ASC, id ASC
TxBefore(a, b) ==
    \/ Val(a.timestamp) < Val(b.timestamp)
    \/ Val(a.timestamp) = Val(b.timestamp) /\ a.id < b.id

RECURSIVE SortTxns(_)
SortTxns(S) ==
    IF S = {} THEN <<>>
    ELSE LET m == CHOOSE a \in S : \A b \in S : a = b \/ TxBefore(a, b)
         IN <<m>> \o SortTxns(S \ {m})

TransactionsInRange(d, lo, hi) ==
    SortTxns({tx \in d.txns : InWindow(tx.timestamp, lo, hi)})

\* ORDER BY acquired_date ASC (rows of equal date in id order)
LotBefore(a, b) ==
    \/ Val(a.acquired_date) < Val(b.acquired_date)
    \/ Val(a.acquired_date) = Val(b.acquired_date) /\ a.id < b.id

RECURSIVE SortLots(_)
SortLots(S) ==
    IF S = {} THEN <<>>
    ELSE LET m == CHOOSE a \in S : \A b \in S : a = b \/ LotBefore(a, b)
         IN <<m>> \o SortLots(S \ {m})

OpenLotsAsOf(d, cutoff) ==
    SortLots({lot \in d.lots : /\ lot.remaining_btc > 0
                               /\ ~IsNone(lot.acquired_date)
                               /\ Val(lot.acquired_date) <= cutoff})

\* rows joined to their transaction, ORDER BY Transaction.timestamp ASC, id ASC
OwnerOf(d, row) == CHOOSE tx \in d.txns : tx.id = row.transaction_id

Joined(d, rows, lo, hi) ==
    {r \in rows : /\ \E tx \in d.txns : tx.id = r.transaction_id
                  /\ InWindow(OwnerOf(d, r).timestamp, lo, hi)}

RowBefore(d, a, b) ==
    \/ Val(OwnerOf(d, a).timestamp) < Val(OwnerOf(d, b).timestamp)
    \/ Val(OwnerOf(d, a).timestamp) = Val(OwnerOf(d, b).timestamp) /\ a.id < b.id

RECURSIVE SortRows(_, _)
SortRows(d, S) ==
    IF S = {} THEN <<>>
    ELSE LET m == CHOOSE a \in S : \A b \in S : a = b \/ RowBefore(d, a, b)
         IN <<m>> \o SortRows(d, S \ {m})

LotDisposalsInRange(d, lo, hi) == SortRows(d, Joined(d, d.disposals, lo, hi))
LedgerEntriesInRange(d, lo, hi) == SortRows(d, Joined(d, d.entries, lo, hi))

(***************************************************************************)
(* End-of-year balances.                                                   *)
(***************************************************************************)
eoy_price == 9415313

LotFractionIsOne(lot) == ~(TruthyNum(lot.total_btc) /\ Val(lot.total_btc) > 0)

LotPartialCost(lot) ==
    IF LotFractionIsOne(lot) THEN OrZero(lot.cost_basis_usd)
    ELSE PartialCost(OrZero(lot.cost_basis_usd), lot.remaining_btc, Val(lot.total_btc))

LotCurValue(lot) == CurValue(lot.remaining_btc, eoy_price)

EoyRow(lot) ==
    [lot_id |-> Some(lot.id),
     asset |-> "BTC",
     acquired_date |-> IsoOrNone(lot.acquired_date),
     quantity |-> BtcFloat(lot.remaining_btc),
     cost |-> UsdFloat(LotPartialCost(lot)),
     value |-> UsdFloat(LotCurValue(lot)),
     description |-> "EOY approx @ $94153.13 / BTC"]

ZeroTotals == [total_btc |-> 0, total_cost |-> 0, total_value |-> 0]

\* the total takes the whole cost basis of a lot, not its remaining part
EoyStep_fullCost(acc, lot) ==
    [total_btc |-> acc.total_btc + lot.remaining_btc,
     total_cost |-> acc.total_cost + OrZero(lot.cost_basis_usd),
     total_value |-> acc.total_value + LotCurValue(lot)]

EoyStep(acc, lot) ==
    [total_btc |-> acc.total_btc + lot.remaining_btc,
     total_cost |-> acc.total_cost + LotPartialCost(lot),
     total_value |-> acc.total_value + LotCurValue(lot)]

RECURSIVE EoyLoop(_, _)
EoyLoop(lots, n) ==
    IF n = 0 THEN ZeroTotals ELSE EoyStep(EoyLoop(lots, n - 1), lots[n])

TotalRow(acc) ==
    [lot_id |-> None,
     asset |-> "TOTAL",
     acquired_date |-> None,
     quantity |-> BtcFloat(acc.total_btc),
     cost |-> UsdFloat(acc.total_cost),
     value |-> UsdFloat(acc.total_value),
     description |-> ""]

EoyRows(open_lots) ==
    [i \in 1..Len(open_lots) |-> EoyRow(open_lots[i])]
        \o <<TotalRow(EoyLoop(open_lots, Len(open_lots)))>>

_build_end_of_year_balances(d, cutoff) == EoyRows(OpenLotsAsOf(d, cutoff))

(***************************************************************************)
(* Lot disposals and ledger entries of the period.                         *)
(***************************************************************************)
DisposalRow(disp) ==
    [id |-> disp.id,
     transaction_id |-> disp.transaction_id,
     lot_id |-> disp.lot_id,
     disposed_btc |-> BtcFloat(OrZero(disp.disposed_btc)),
     disposal_basis_usd |-> UsdFloat(OrZero(disp.disposal_basis_usd)),
     proceeds_usd_for_that_portion |-> UsdFloat(OrZero(disp.proceeds_usd_for_that_portion)),
     realized_gain_usd |-> UsdFloat(OrZero(disp.realized_gain_usd)),
     holding_period |-> disp.holding_period]

_build_lot_disposals_for_period(d, lo, hi) ==
    LET disposals == LotDisposalsInRange(d, lo, hi)
    IN [i \in 1..Len(disposals) |-> DisposalRow(disposals[i])]

\* float(le.amount) raises TypeError on None
LedgerRowRaises(le) == IsNone(le.amount)

LedgerRow(d, le) ==
    [id |-> le.id,
     transaction_id |-> le.transaction_id,
     account_id |-> le.account_id,
     amount |-> BtcFloat(Val(le.amount)),
     currency |-> le.currency,
     entry_type |-> le.entry_type,
     transaction_timestamp |-> IsoOrNone(OwnerOf(d, le).timestamp)]

_build_ledger_entries_for_period(d, lo, hi) ==
    LET entries == LedgerEntriesInRange(d, lo, hi)
    IN [i \in 1..Len(entries) |-> LedgerRow(d, entries[i])]

(***************************************************************************)
(* The upstream collaborators.  recalculate_all_transactions re-applies    *)
(* lot matching to the whole ledger: it rebuilds lots, lot disposals and   *)
(* ledger entries from the transactions, first lot in first lot out, and   *)
(* prices every disposal.  The three calculation queries are opaque.       *)
(***************************************************************************)
Min(a, b) == IF a <= b THEN a ELSE b

IsAcquisition(tx) == tx.type \in {"Buy", "Deposit"}
IsDisposing(tx) == tx.type \in {"Sell", "Withdrawal"}

NewLot(lots, tx) ==
    [id |-> Len(lots) + 1,
     acquired_date |-> tx.timestamp,
     total_btc |-> Some(OrZero(tx.amount)),
     remaining_btc |-> OrZero(tx.amount),
     cost_basis_usd |-> tx.cost_basis_usd]

\* consume `need' satoshis from lots[i..]: <<lots, portions taken>>
RECURSIVE Consume(_, _, _)
Consume(lots, i, need) ==
    IF i > Len(lots) \/ need = 0 THEN <<lots, <<>>>>
    ELSE LET lot == lots[i]
             take == Min(need, lot.remaining_btc)
             rest == Consume([lots EXCEPT ![i].remaining_btc = @ - take], i + 1, need - take)
         IN IF take = 0 THEN Consume(lots, i + 1, need)
            ELSE <<rest[1],
                   <<[lot_id |-> lot.id, btc |-> take,
                      basis |-> (OrZero(lot.cost_basis_usd) * take) \div Val(lot.total_btc),
                      acquired |-> Val(lot.acquired_date)]>> \o rest[2]>>

RECURSIVE SumBasis(_, _)
SumBasis(rows, n) == IF n = 0 THEN 0 ELSE SumBasis(rows, n - 1) + rows[n].basis

RECURSIVE SumBtc(_, _)
SumBtc(rows, n) == IF n = 0 THEN 0 ELSE SumBtc(rows, n - 1) + rows[n].btc

HoldingOf(tx, portions) ==
    IF portions = <<>> THEN None
    ELSE IF Val(tx.timestamp) - portions[1].acquired >= TicksPerYear
         THEN Some("LONG") ELSE Some("SHORT")

RelotStep(st, tx) ==
    LET entry == [id |-> Len(st.entries) + 1, transaction_id |-> tx.id,
                  account_id |-> 1, amount |-> tx.amount, currency |-> "BTC",
                  entry_type |-> IF IsDisposing(tx) THEN "credit" ELSE "debit"]
    IN IF IsAcquisition(tx)
       THEN [st EXCEPT !.lots = Append(@, NewLot(st.lots, tx)),
                       !.entries = Append(@, entry),
                       !.txns = @ \cup {[tx EXCEPT !.realized_gain_usd = None,
                                                   !.holding_period = None]}]
       ELSE LET c == Consume(st.lots, 1, OrZero(tx.amount))
                portions == c[2]
                basis == SumBasis(portions, Len(portions))
                disposed == SumBtc(portions, Len(portions))
                hp == HoldingOf(tx, portions)
                rows == [k \in 1..Len(portions) |->
                           [id |-> Len(st.disposals) + k,
                            transaction_id |-> tx.id,
                            lot_id |-> portions[k].lot_id,
                            disposed_btc |-> Some(portions[k].btc),
                            disposal_basis_usd |-> Some(portions[k].basis),
                            proceeds_usd_for_that_portion |->
                                Some((OrZero(tx.proceeds_usd) * portions[k].btc) \div disposed),
                            realized_gain_usd |->
                                Some((OrZero(tx.proceeds_usd) * portions[k].btc) \div disposed
                                     - portions[k].basis),
                            holding_period |-> hp]]
            IN [lots |-> c[1],
                disposals |-> st.disposals \o rows,
                entries |-> Append(st.entries, entry),
                txns |-> st.txns \cup
                    {[tx EXCEPT !.cost_basis_usd = Some(basis),
                                !.realized_gain_usd = Some(OrZero(tx.proceeds_usd) - basis),
                                !.holding_period = hp]}]

RECURSIVE RelotLoop(_, _)
RelotLoop(order, n) ==
    IF n = 0 THEN [lots |-> <<>>, disposals |-> <<>>, entries |-> <<>>, txns |-> {}]
    ELSE RelotStep(RelotLoop(order, n - 1), order[n])

SeqToSet(q) == {q[i] : i \in 1..Len(q)}

recalculate_all_transactions(d) ==
    LET order == SortTxns(d.txns)
        st == RelotLoop(order, Len(order))
    IN [txns |-> st.txns, lots |-> SeqToSet(st.lots),
        disposals |-> SeqToSet(st.disposals), entries |-> SeqToSet(st.entries)]

get_all_account_balances(d) == <<"account_balances", d.entries>>
get_gains_and_losses(d) == <<"gains_and_losses", d.disposals>>
get_average_cost_basis(d) == <<"average_cost_basis", d.lots>>

(***************************************************************************)
(* generate_report_data, statement by statement.                           *)
(***************************************************************************)
EmptyRes ==
    [gains_dict |-> None, income_dict |-> None, asset_list |-> None,
     eoy_list |-> None, cap_gain_txs |-> None, income_txs |-> None,
     gifts_lost |-> None, expense_list |-> None, data_sources_list |-> None,
     all_txn_data |-> None, lot_disposals_data |-> None,
     ledger_entries_data |-> None, account_balances_data |-> None,
     overall_calcs |-> None, average_btc_basis |-> None]

\* f"{year}-01-01 to {year}-12-31"
PeriodOf(y) == <<y, "-01-01 to ", y, "-12-31">>

\* datetime.now(timezone.utc).strftime("%Y-%m-%d %H:%M:%S")
ReportDate(now) == <<"%Y-%m-%d %H:%M:%S", now>>

Dataset(y, now, r) ==
    [tax_year |-> y,
     report_date |-> ReportDate(now),
     period |-> PeriodOf(y),
     capital_gains_summary |-> Val(r.gains_dict),
     income_summary |-> Val(r.income_dict),
     asset_summary |-> Val(r.asset_list),
     end_of_year_balances |-> Val(r.eoy_list),
     capital_gains_transactions |-> Val(r.cap_gain_txs),
     income_transactions |-> Val(r.income_txs),
     gifts_donations_lost |-> Val(r.gifts_lost),
     expenses |-> Val(r.expense_list),
     data_sources |-> Val(r.data_sources_list),
     all_transactions |-> Val(r.all_txn_data),
     lot_disposals |-> Val(r.lot_disposals_data),
     ledger_entries |-> Val(r.ledger_entries_data),
     account_balances |-> Val(r.account_balances_data),
     overall_calcs |-> Val(r.overall_calcs),
     average_btc_cost_basis |-> <<"float", Val(r.average_btc_basis)>>]

Goto(c, label) == pc' = [pc EXCEPT ![c] = label]
Issue(c, kind, what) == trace' = [trace EXCEPT ![c] = Append(@, <<kind, what>>)]
Read(c) == seen' = [seen EXCEPT ![c] = @ \cup {db}]

\* the labels of a call between its first and its last query of the ledger
BetweenQueries ==
    {"gains", "income", "asset", "eoy", "cg_txs", "income_txs", "gifts",
     "expenses", "sources", "all_txns", "lot_disposals", "ledger_entries"}

\* re-lotting is started and not awaited
RelotCall_background(c) ==
    /\ pc[c] = "start"
    /\ Goto(c, "q_txns")
    /\ Issue(c, "call", "relot")
    /\ UNCHANGED <<db, year, price_feed, txns, res, ret, err, seen, clock>>

\* line 41: the call enters recalculate_all_transactions; callers run one
\* re-lotting at a time
RelotCall(c) ==
    /\ pc[c] = "start"
    /\ \A o \in Calls \ {c} : pc[o] # "relotting"
    /\ Goto(c, "relotting")
    /\ Issue(c, "call", "relot")
    /\ UNCHANGED <<db, year, price_feed, txns, res, ret, err, seen, clock>>

\* line 41: re-lotting commits and returns
RelotReturn(c) ==
    /\ pc[c] = "relotting"
    /\ db' = recalculate_all_transactions(db)
    /\ Goto(c, "q_txns")
    /\ trace' = [o \in Calls |->
                    IF o = c THEN Append(trace[o], <<"return", "relot">>)
                    ELSE IF pc[o] \in BetweenQueries
                         THEN Append(trace[o], <<"overlapped", "relot">>)
                         ELSE trace[o]]
    /\ UNCHANGED <<year, price_feed, txns, res, ret, err, seen, clock>>

\* the fetched list is kept in one place for all calls
QueryTxns_sharedList(c) ==
    /\ pc[c] = "q_txns"
    /\ txns' = [o \in Calls |->
                   TransactionsInRange(db, start_dt(year[c]), end_dt(year[c]))]
    /\ Goto(c, "gains")
    /\ Issue(c, "call", "transactions")
    /\ Read(c)
    /\ UNCHANGED <<db, year, price_feed, res, ret, err, clock>>

\* lines 44-53
QueryTxns(c) ==
    /\ pc[c] = "q_txns"
    /\ txns' = [txns EXCEPT ![c] =
                   TransactionsInRange(db, start_dt(year[c]), end_dt(year[c]))]
    /\ Goto(c, "gains")
    /\ Issue(c, "call", "transactions")
    /\ Read(c)
    /\ UNCHANGED <<db, year, price_feed, res, ret, err, clock>>

Local(c, from, to) ==
    /\ pc[c] = from
    /\ Goto(c, to)
    /\ UNCHANGED <<db, year, price_feed, txns, ret, err, trace, seen, clock>>

\* the disposal counter outlives the call
StepGains_keepsCount(c) ==
    /\ Local(c, "gains", "income")
    /\ res' = [res EXCEPT ![c].gains_dict =
                  Some([_build_capital_gains_summary(txns[c]) EXCEPT
                          !.number_of_disposals =
                              @ + Cardinality({o \in Calls \ {c} :
                                                 /\ res[o].gains_dict # None
                                                 /\ Val(res[o].gains_dict).number_of_disposals > 0})])]

\* line 58
StepGains(c) ==
    /\ Local(c, "gains", "income")
    /\ res' = [res EXCEPT ![c].gains_dict = Some(_build_capital_gains_summary(txns[c]))]

\* line 59
StepIncome(c) ==
    /\ Local(c, "income", "asset")
    /\ res' = [res EXCEPT ![c].income_dict = Some(_build_income_summary(txns[c]))]

\* line 60
StepAsset(c) ==
    /\ Local(c, "asset", "eoy")
    /\ res' = [res EXCEPT ![c].asset_list = Some(_build_asset_summary(txns[c]))]

\* line 61
StepEoy(c) ==
    /\ pc[c] = "eoy"
    /\ res' = [res EXCEPT ![c].eoy_list =
                  Some(_build_end_of_year_balances(db, end_dt(year[c])))]
    /\ Goto(c, "cg_txs")
    /\ Issue(c, "call", "open_lots")
    /\ Read(c)
    /\ UNCHANGED <<db, year, price_feed, txns, ret, err, clock>>

\* line 62
StepCapGainTxs(c) ==
    /\ Local(c, "cg_txs", "income_txs")
    /\ res' = [res EXCEPT ![c].cap_gain_txs = Some(_build_capital_gains_transactions(txns[c]))]

\* line 63
StepIncomeTxs(c) ==
    /\ Local(c, "income_txs", "gifts")
    /\ res' = [res EXCEPT ![c].income_txs = Some(_build_income_transactions(txns[c]))]

\* line 64
StepGifts(c) ==
    /\ Local(c, "gifts", "expenses")
    /\ res' = [res EXCEPT ![c].gifts_lost = Some(_build_gifts_donations_lost(txns[c]))]

\* line 65
StepExpenses(c) ==
    /\ Local(c, "expenses", "sources")
    /\ res' = [res EXCEPT ![c].expense_list = Some(_build_expenses_list(txns[c]))]

\* line 66
StepSources(c) ==
    /\ Local(c, "sources", "all_txns")
    /\ res' = [res EXCEPT ![c].data_sources_list = Some(_gather_data_sources(txns[c]))]

\* the null fee is replaced by zero on the record itself
StepAllTxns_zeroFills(c) ==
    /\ pc[c] = "all_txns"
    /\ Goto(c, "lot_disposals")
    /\ res' = [res EXCEPT ![c].all_txn_data = Some(_build_all_transactions_data(txns[c]))]
    /\ db' = [db EXCEPT !.txns = {[tx EXCEPT !.fee_amount = Some(OrZero(@))] : tx \in db.txns}]
    /\ UNCHANGED <<year, price_feed, txns, ret, err, trace, seen, clock>>

\* line 69
StepAllTxns(c) ==
    /\ Local(c, "all_txns", "lot_disposals")
    /\ res' = [res EXCEPT ![c].all_txn_data = Some(_build_all_transactions_data(txns[c]))]

\* line 70
StepLotDisposals(c) ==
    /\ pc[c] = "lot_disposals"
    /\ res' = [res EXCEPT ![c].lot_disposals_data =
                  Some(_build_lot_disposals_for_period(db, start_dt(year[c]), end_dt(year[c])))]
    /\ Goto(c, "ledger_entries")
    /\ Issue(c, "call", "lot_disposals")
    /\ Read(c)
    /\ UNCHANGED <<db, year, price_feed, txns, ret, err, clock>>

\* line 73; float(le.amount) raises on a null amount
StepLedgerEntries(c) ==
    LET entries == LedgerEntriesInRange(db, start_dt(year[c]), end_dt(year[c]))
    IN /\ pc[c] = "ledger_entries"
       /\ Issue(c, "call", "ledger_entries")
       /\ Read(c)
       /\ IF \E i \in 1..Len(entries) : LedgerRowRaises(entries[i])
          THEN /\ Goto(c, "error")
               /\ err' = [err EXCEPT ![c] = Some(<<"TypeError", "ledger_entries">>)]
               /\ UNCHANGED res
          ELSE /\ Goto(c, "balances")
               /\ res' = [res EXCEPT ![c].ledger_entries_data =
                             Some(_build_ledger_entries_for_period(db, start_dt(year[c]), end_dt(year[c])))]
               /\ UNCHANGED err
       /\ UNCHANGED <<db, year, price_feed, txns, ret, clock>>

\* line 76
StepBalances(c) ==
    /\ pc[c] = "balances"
    /\ res' = [res EXCEPT ![c].account_balances_data = Some(get_all_account_balances(db))]
    /\ Goto(c, "gains_losses")
    /\ Issue(c, "call", "account_balances")
    /\ UNCHANGED <<db, year, price_feed, txns, ret, err, seen, clock>>

\* line 77
StepGainsLosses(c) ==
    /\ pc[c] = "gains_losses"
    /\ res' = [res EXCEPT ![c].overall_calcs = Some(get_gains_and_losses(db))]
    /\ Goto(c, "avg_basis")
    /\ Issue(c, "call", "gains_and_losses")
    /\ UNCHANGED <<db, year, price_feed, txns, ret, err, seen, clock>>

\* line 78
StepAvgBasis(c) ==
    /\ pc[c] = "avg_basis"
    /\ res' = [res EXCEPT ![c].average_btc_basis = Some(get_average_cost_basis(db))]
    /\ Goto(c, "build")
    /\ Issue(c, "call", "average_cost_basis")
    /\ UNCHANGED <<db, year, price_feed, txns, ret, err, seen, clock>>

\* lines 82-110
Return(c) ==
    /\ pc[c] = "build"
    /\ ret' = [ret EXCEPT ![c] = Some(Dataset(year[c], clock, res[c]))]
    /\ Goto(c, "done")
    /\ UNCHANGED <<db, year, price_feed, txns, res, err, trace, seen, clock>>

\* the statements that call out of the module, by the label they are at
Upstream ==
    [relotting |-> "relot", q_txns |-> "transactions", eoy |-> "open_lots",
     lot_disposals |-> "lot_disposals", ledger_entries |-> "ledger_entries",
     balances |-> "account_balances", gains_losses |-> "gains_and_losses",
     avg_basis |-> "average_cost_basis"]

\* the failure is caught and what has been built so far is returned
Raise_returnsPartial(c) ==
    /\ pc[c] \in DOMAIN Upstream
    /\ err' = [err EXCEPT ![c] = Some(<<"raised by", Upstream[pc[c]]>>)]
    /\ ret' = [ret EXCEPT ![c] = Some(res[c])]
    /\ Goto(c, "done")
    /\ Issue(c, "failed", Upstream[pc[c]])
    /\ UNCHANGED <<db, year, price_feed, txns, res, seen, clock>>

\* an upstream call raises: nothing catches it, the call ends in that error
Raise(c) ==
    /\ pc[c] \in DOMAIN Upstream
    /\ err' = [err EXCEPT ![c] = Some(<<"raised by", Upstream[pc[c]]>>)]
    /\ Goto(c, "error")
    /\ Issue(c, "failed", Upstream[pc[c]])
    /\ UNCHANGED <<db, year, price_feed, txns, res, ret, seen, clock>>

MaxClock == 1

\* time passes; the call reads the clock at line 84 only, so the ticks that
\* matter are those taken while a call is about to build its dataset
Tick ==
    /\ clock < MaxClock
    /\ \E c \in Calls : pc[c] = "build"
    /\ clock' = clock + 1
    /\ UNCHANGED <<db, pc, year, price_feed, txns, res, ret, err, trace, seen>>

(***************************************************************************)
(* Inputs.                                                                 *)
(***************************************************************************)
MaxTx == 2
MaxLots == 2
MaxYear == 2

Years == 1..MaxYear

Str_MiningPool == <<"M","i","n","i","n","g"," ","P","o","o","l">>
Str_StakingREWARD == <<"S","t","a","k","i","n","g"," ","R","E","W","A","R","D">>
Str_Interest == <<"I","n","t","e","r","e","s","t">>
Str_mining_reward == <<"m","i","n","i","n","g"," ","r","e","w","a","r","d">>
Str_Gift == <<"G","i","f","t">>
Str_Lost == <<"L","o","s","t">>
Str_Expenses == <<"E","x","p","e","n","s","e","s">>
Str_gift_card == <<"g","i","f","t"," ","c","a","r","d">>
Str_Empty == <<>>

Body(type, amount, basis, proceeds, gain, hp, source, purpose) ==
    [type |-> type, amount |-> amount, fee_amount |-> None,
     cost_basis_usd |-> basis, proceeds_usd |-> proceeds,
     realized_gain_usd |-> gain, holding_period |-> hp,
     source |-> source, purpose |-> purpose]

GainSamples ==
    {Body("Sell", Some(50000000), Some(10), Some(30), Some(20), Some("LONG"), None, None),
     Body("Sell", Some(10000000), Some(20), Some(30), Some(10), Some("SHORT"), None, None),
     Body("Sell", Some(20000000), Some(20), Some(10), Some(0 - 10), None, None, None),
     Body("Sell", Some(1), Some(10), Some(30), None, Some("LONG"), None, None),
     Body("Sell", None, Some(10), None, Some(0), Some("long"), None, None),
     Body("Withdrawal", Some(3), Some(10), Some(20), Some(10), Some("LONG"), None, Some(Str_Lost)),
     Body("Withdrawal", Some(3), None, Some(20), None, None, None, Some(Str_Expenses)),
     Body("Withdrawal", Some(3), Some(10), Some(10), Some(0), Some("SHORT"), None, Some(Str_gift_card)),
     Body("Buy", Some(100), Some(10), None, Some(20), Some("LONG"), None, None),
     Body("Sell", Some(3), Some(10), Some(20), Some(10), Some("SHORT"), None, Some(Str_Gift)),
     Body("Withdrawal", Some(3), None, None, None, None, None, Some(Str_Empty))}

IncomeSamples ==
    {Body("Deposit", Some(100), Some(10), None, None, None, Some(Str_MiningPool), None),
     Body("Deposit", Some(100), Some(20), None, None, None, Some(Str_StakingREWARD), None),
     Body("Deposit", Some(100), None, None, None, None, Some(Str_Interest), None),
     Body("Deposit", Some(100), Some(20), None, None, None, Some(Str_mining_reward), None),
     Body("Deposit", None, Some(10), None, None, None, Some(Str_Gift), None),
     Body("Deposit", Some(100), Some(10), None, None, None, Some(Str_Empty), None),
     Body("Deposit", Some(100), Some(10), None, None, None, None, None),
     Body("Withdrawal", Some(100), Some(10), None, None, None, Some(s_mining), None)}

TxOf(id, ts, body) ==
    [id |-> id, timestamp |-> Some(ts), type |-> body.type, amount |-> body.amount,
     fee_amount |-> body.fee_amount, cost_basis_usd |-> body.cost_basis_usd,
     proceeds_usd |-> body.proceeds_usd, realized_gain_usd |-> body.realized_gain_usd,
     holding_period |-> body.holding_period, source |-> body.source,
     purpose |-> body.purpose]

\* the lists of at most MaxTx transactions of a year, in (timestamp, id) order
ListsOver(samples, y) ==
    UNION {{[i \in 1..n |-> TxOf(i, start_dt(y), bodies[i])] : bodies \in [1..n -> samples]}
           : n \in 0..MaxTx}

Lot(id, acquired, total, remaining, cost) ==
    [id |-> id, acquired_date |-> acquired, total_btc |-> total,
     remaining_btc |-> remaining, cost_basis_usd |-> cost]

LotSamples ==
    {Lot(1, Some(start_dt(1)), Some(100000000), 50000000, Some(2000000)),
     Lot(2, Some(start_dt(1) + 1), None, 10000000, None),
     Lot(3, Some(start_dt(1) + 1), Some(0), 20000000, Some(10)),
     Lot(4, Some(start_dt(1)), Some(100000000), 0, Some(2000000)),
     Lot(5, Some(start_dt(2)), Some(30000000), 30000000, Some(500)),
     Lot(6, Some(end_dt(1)), Some(6), 1, Some(3)),
     Lot(7, Some(start_dt(1) - 1), Some(30000000), 10000000, Some(10)),
     Lot(8, None, Some(100), 100, Some(10))}

LotSets == {S \in SUBSET LotSamples : Cardinality(S) <= MaxLots}

EmptyDb == [txns |-> {}, lots |-> {}, disposals |-> {}, entries |-> {}]

\* what the environment may hold as the valuation price of a cutoff
NumericPrice(cents) == <<"numeric", cents>>
MalformedPrice == <<"malformed", "94,153.13 USD">>

\* a call that has fetched its transaction list
InitLocals(c0, label) ==
    /\ pc = [c \in Calls |-> IF c = c0 THEN label ELSE "idle"]
    /\ res = [c \in Calls |-> EmptyRes]
    /\ ret = [c \in Calls |-> None]
    /\ err = [c \in Calls |-> None]
    /\ trace = [c \in Calls |-> <<>>]
    /\ seen = [c \in Calls |-> {}]
    /\ clock = 0
    /\ price_feed = NumericPrice(eoy_price)

\* the helpers applied to every transaction list and to every lot table
InitPure ==
    /\ InitLocals(1, "gains")
    /\ \/ /\ db = EmptyDb
          /\ year = [c \in Calls |-> 1]
          /\ \E list \in ListsOver(GainSamples, 1) \cup ListsOver(IncomeSamples, 1) :
                txns = [c \in Calls |-> IF c = 1 THEN list ELSE <<>>]
       \/ /\ \E S \in LotSets : db = [EmptyDb EXCEPT !.lots = S]
          /\ \E y \in Years : year = [c \in Calls |-> y]
          /\ txns = [c \in Calls |-> <<>>]

NextPure ==
    \E c \in Calls :
        \/ StepGains(c)
        \/ StepIncome(c)
        \/ StepAsset(c)
        \/ StepEoy(c)
        \/ StepCapGainTxs(c)
        \/ StepIncomeTxs(c)
        \/ StepGifts(c)
        \/ StepExpenses(c)
        \/ StepSources(c)
        \/ StepAllTxns(c)

SpecPure == InitPure /\ [][NextPure]_vars

(***************************************************************************)
(* Whole calls.  The ledger holds the transactions as entered; its lots,   *)
(* disposals and entries are either those of the last re-lotting or absent *)
(* (a ledger that has not been re-lotted since it was loaded).             *)
(***************************************************************************)
Raw(id, ts, type, amount, basis, proceeds, source, purpose) ==
    TxOf(id, ts, Body(type, amount, basis, proceeds, None, None, source, purpose))

tx_deposit == Raw(1, start_dt(1), "Deposit", Some(100), Some(30), None, Some(Str_MiningPool), None)
tx_sell == Raw(2, end_dt(1), "Sell", Some(40), None, Some(20), None, None)
tx_lost == Raw(3, end_dt(1) + 1, "Withdrawal", Some(10), None, Some(5), None, Some(Str_Lost))
tx_sell_later == Raw(4, start_dt(2) + 1, "Sell", Some(50), None, Some(30), None, None)
tx_no_amount == Raw(5, start_dt(1) + 1, "Deposit", None, Some(10), None, Some(Str_Gift), None)

Ledgers ==
    {{}, {tx_deposit, tx_sell}, {tx_deposit, tx_sell, tx_lost, tx_sell_later},
     {tx_deposit, tx_no_amount}}

Loaded(L) == [EmptyDb EXCEPT !.txns = L]

Init ==
    /\ \E L \in Ledgers :
          db \in {Loaded(L), recalculate_all_transactions(Loaded(L))}
    /\ year \in [Calls -> Years]
    /\ pc = [c \in Calls |-> "start"]
    /\ txns = [c \in Calls |-> <<>>]
    /\ res = [c \in Calls |-> EmptyRes]
    /\ ret = [c \in Calls |-> None]
    /\ err = [c \in Calls |-> None]
    /\ trace = [c \in Calls |-> <<>>]
    /\ seen = [c \in Calls |-> {}]
    /\ clock = 0
    /\ price_feed = NumericPrice(eoy_price)

Next ==
    \/ \E c \in Calls :
          \/ RelotCall(c)
          \/ RelotReturn(c)
          \/ QueryTxns(c)
          \/ StepGains(c)
          \/ StepIncome(c)
          \/ StepAsset(c)
          \/ StepEoy(c)
          \/ StepCapGainTxs(c)
          \/ StepIncomeTxs(c)
          \/ StepGifts(c)
          \/ StepExpenses(c)
          \/ StepSources(c)
          \/ StepAllTxns(c)
          \/ StepLotDisposals(c)
          \/ StepLedgerEntries(c)
          \/ StepBalances(c)
          \/ StepGainsLosses(c)
          \/ StepAvgBasis(c)
          \/ Return(c)
          \/ Raise(c)
    \/ Tick

Spec == Init /\ [][Next]_vars

\* whole calls on one ledger, with every kind of price the environment may hold
InitFeed ==
    /\ db = recalculate_all_transactions(Loaded({tx_deposit, tx_sell}))
    /\ year \in [Calls -> Years]
    /\ pc = [c \in Calls |-> "start"]
    /\ txns = [c \in Calls |-> <<>>]
    /\ res = [c \in Calls |-> EmptyRes]
    /\ ret = [c \in Calls |-> None]
    /\ err = [c \in Calls |-> None]
    /\ trace = [c \in Calls |-> <<>>]
    /\ seen = [c \in Calls |-> {}]
    /\ clock = 0
    /\ price_feed \in {NumericPrice(eoy_price), NumericPrice(UsdScale), MalformedPrice}

SpecFeed == InitFeed /\ [][Next]_vars

(***************************************************************************)
(* Properties.  The sums below are taken over index sets of the list, not  *)
(* by the loops of the helpers.                                            *)
(***************************************************************************)
RECURSIVE SumFn(_, _)
SumFn(f, S) ==
    IF S = {} THEN 0
    ELSE LET i == CHOOSE k \in S : TRUE IN f[i] + SumFn(f, S \ {i})

Idx(list) == 1..Len(list)

DisposalIdx(list) ==
    {i \in Idx(list) : list[i].type \in {"Sell", "Withdrawal"}
                       /\ list[i].realized_gain_usd # None}
LongIdx(list) == {i \in DisposalIdx(list) : list[i].holding_period = Some("LONG")}
ShortIdx(list) == DisposalIdx(list) \ LongIdx(list)

Proceeds(list) == [i \in Idx(list) |-> OrZero(list[i].proceeds_usd)]
Basis(list) == [i \in Idx(list) |-> OrZero(list[i].cost_basis_usd)]
Gain(list) == [i \in Idx(list) |-> OrZero(list[i].realized_gain_usd)]

HasGains(c) == res[c].gains_dict # None
GainsOf(c) == Val(res[c].gains_dict)

\* C1 as stated: the emitted total block equals short_term + long_term, field
\* by field, as exact equalities of the emitted numbers.
C1_TotalEqualsShortPlusLong ==
    \A c \in Calls : HasGains(c) =>
        LET g == GainsOf(c)
        IN /\ g.total.proceeds = FAdd(g.short_term.proceeds, g.long_term.proceeds)
           /\ g.total.basis = FAdd(g.short_term.basis, g.long_term.basis)
           /\ g.total.gain = FAdd(g.short_term.gain, g.long_term.gain)

\* C1 amended: each total field is the float of the exact decimal sum of the
\* short-term and the long-term decimal sums of that field.
C1_TotalIsFloatOfExactSum ==
    \A c \in Calls : HasGains(c) =>
        LET g == GainsOf(c)
            l == txns[c]
        IN /\ g.total.proceeds =
                 UsdFloat(SumFn(Proceeds(l), ShortIdx(l)) + SumFn(Proceeds(l), LongIdx(l)))
           /\ g.total.basis =
                 UsdFloat(SumFn(Basis(l), ShortIdx(l)) + SumFn(Basis(l), LongIdx(l)))
           /\ g.total.gain =
                 UsdFloat(SumFn(Gain(l), ShortIdx(l)) + SumFn(Gain(l), LongIdx(l)))

\* both buckets are filled and the emitted floats do not add up exactly
C1_Witness ==
    \E c \in Calls :
        /\ HasGains(c)
        /\ GainsOf(c).short_term.basis # FZero
        /\ GainsOf(c).long_term.basis # FZero
        /\ GainsOf(c).total.basis #
              FAdd(GainsOf(c).short_term.basis, GainsOf(c).long_term.basis)

\* C2: every disposal (Sell or Withdrawal with a realized gain) is summed into
\* long_term when its holding period is exactly "LONG" and into short_term
\* otherwise, null included; number_of_disposals counts the disposals; nothing
\* else is summed.
C2_BucketsByHoldingPeriod ==
    \A c \in Calls : HasGains(c) =>
        LET g == GainsOf(c)
            l == txns[c]
        IN /\ g.number_of_disposals = Cardinality(DisposalIdx(l))
           /\ g.long_term.proceeds = UsdFloat(SumFn(Proceeds(l), LongIdx(l)))
           /\ g.long_term.basis = UsdFloat(SumFn(Basis(l), LongIdx(l)))
           /\ g.long_term.gain = UsdFloat(SumFn(Gain(l), LongIdx(l)))
           /\ g.short_term.proceeds = UsdFloat(SumFn(Proceeds(l), ShortIdx(l)))
           /\ g.short_term.basis = UsdFloat(SumFn(Basis(l), ShortIdx(l)))
           /\ g.short_term.gain = UsdFloat(SumFn(Gain(l), ShortIdx(l)))

\* a list with a long-term disposal and a disposal without holding period has
\* been summarised
C2_Witness ==
    \E c \in Calls :
        /\ HasGains(c)
        /\ LongIdx(txns[c]) # {}
        /\ \E i \in ShortIdx(txns[c]) : txns[c][i].holding_period = None

TxIds(rows) == {rows[i].tx_id : i \in 1..Len(rows)}

Classified(c) ==
    /\ HasGains(c)
    /\ res[c].cap_gain_txs # None
    /\ res[c].income_txs # None
    /\ res[c].gifts_lost # None
    /\ res[c].expense_list # None

\* the categories the report puts the transaction with this id in
CategoriesOf(c, id) ==
    {k \in {"Disposal", "Income", "GiftDonationLost", "Expense"} :
        \/ k = "Disposal" /\ id \in TxIds(Val(res[c].cap_gain_txs))
        \/ k = "Income" /\ id \in TxIds(Val(res[c].income_txs))
        \/ k = "GiftDonationLost" /\ id \in TxIds(Val(res[c].gifts_lost))
        \/ k = "Expense" /\ id \in TxIds(Val(res[c].expense_list))}

\* C3 as stated: a report puts every transaction in at most one of Disposal,
\* Income, Gift/Donation/Lost and Expense, and capital_gains_summary counts no
\* transaction that is listed under gifts_donations_lost.
C3_AtMostOneCategory ==
    \A c \in Calls : Classified(c) =>
        /\ \A i \in Idx(txns[c]) : Cardinality(CategoriesOf(c, txns[c][i].id)) <= 1
        /\ GainsOf(c).number_of_disposals <=
              Cardinality({i \in Idx(txns[c]) :
                              txns[c][i].id \notin TxIds(Val(res[c].gifts_lost))})

HasIncome(c) == res[c].income_dict # None
IncomeOf(c) == Val(res[c].income_dict)

\* C4 as stated: Mining + Reward + Other = Total on the emitted numbers.
C4_BucketsAddUpToTotal ==
    \A c \in Calls : HasIncome(c) =>
        FAdd(FAdd(IncomeOf(c).Mining, IncomeOf(c).Reward), IncomeOf(c).Other)
            = IncomeOf(c).Total

HasWord(word, str) ==
    \E i \in 0..(Len(str) - Len(word)) :
        \A k \in 1..Len(word) : LowerChar(str[i + k]) = word[k]

DepositIdx(list) ==
    {i \in Idx(list) : /\ list[i].type = "Deposit"
                       /\ list[i].source # None
                       /\ Val(list[i].source) # <<>>}
MiningIdx(list) == {i \in DepositIdx(list) : HasWord(s_mining, Val(list[i].source))}
RewardIdx(list) ==
    {i \in DepositIdx(list) \ MiningIdx(list) :
        HasWord(s_reward, Val(list[i].source)) \/ HasWord(s_interest, Val(list[i].source))}
OtherIdx(list) == DepositIdx(list) \ (MiningIdx(list) \cup RewardIdx(list))

\* C4 amended: the four keys are always present; Mining, Reward and Other are
\* the floats of the exact decimal sums of cost_basis_usd (null as zero) over
\* the deposits with a non-empty source that fall, case-insensitively and with
\* the precedence mining, then reward or interest, then other, in that
\* bucket; Total is the float of the exact decimal sum of the three.
C4_BucketsAreFloatsOfExactSums ==
    \A c \in Calls : HasIncome(c) =>
        LET l == txns[c]
            m == SumFn(Basis(l), MiningIdx(l))
            r == SumFn(Basis(l), RewardIdx(l))
            o == SumFn(Basis(l), OtherIdx(l))
        IN /\ DOMAIN IncomeOf(c) = {"Mining", "Reward", "Other", "Total"}
           /\ IncomeOf(c).Mining = UsdFloat(m)
           /\ IncomeOf(c).Reward = UsdFloat(r)
           /\ IncomeOf(c).Other = UsdFloat(o)
           /\ IncomeOf(c).Total = UsdFloat(m + r + o)

\* a source naming both mining and reward has been summed with a deposit of
\* another bucket, and the emitted buckets do not add up to the emitted total
C4_Witness ==
    \E c \in Calls :
        /\ HasIncome(c)
        /\ IncomeOf(c).Total #
              FAdd(FAdd(IncomeOf(c).Mining, IncomeOf(c).Reward), IncomeOf(c).Other)
        /\ \E i \in MiningIdx(txns[c]) : HasWord(s_reward, Val(txns[c][i].source))

(***************************************************************************)
(* The orchestration.                                                      *)
(***************************************************************************)
\* the events of a call itself
OwnEvents(c) == SelectSeq(trace[c], LAMBDA e : e[1] # "overlapped")

QueryNames ==
    {"transactions", "open_lots", "lot_disposals", "ledger_entries",
     "account_balances", "gains_and_losses", "average_cost_basis"}

RelotCalls(t) == {i \in 1..Len(t) : t[i] = <<"call", "relot">>}
RelotReturns(t) == {i \in 1..Len(t) : t[i] = <<"return", "relot">>}
Queries(t) == {i \in 1..Len(t) : t[i][2] \in QueryNames}

\* C5: a call invokes re-lotting exactly once, and re-lotting has returned
\* before the first of its queries (transactions, open lots, lot disposals,
\* ledger entries, the three calculation queries) is issued; no query is
\* issued before or during re-lotting.
C5_RelotOnceBeforeQueries ==
    \A c \in Calls :
        LET t == OwnEvents(c)
        IN /\ Cardinality(RelotCalls(t)) <= 1
           /\ pc[c] \notin {"start", "idle"} => Cardinality(RelotCalls(t)) = 1
           /\ \A q \in Queries(t) :
                  \E r \in RelotReturns(t) : r < q /\ \E k \in RelotCalls(t) : k < r
           /\ pc[c] = "relotting" => Queries(t) = {}

\* a call has run to its end: one re-lotting, then the seven queries
C5_Witness ==
    \E c \in Calls :
        /\ pc[c] = "done"
        /\ Cardinality(RelotCalls(OwnEvents(c))) = 1
        /\ Cardinality(Queries(OwnEvents(c))) = 7

\* what a call for year y returns when it runs alone on the re-lotted ledger d
AloneDataset(d, y, now) ==
    LET list == TransactionsInRange(d, start_dt(y), end_dt(y))
    IN Dataset(y, now,
         [gains_dict |-> Some(_build_capital_gains_summary(list)),
          income_dict |-> Some(_build_income_summary(list)),
          asset_list |-> Some(_build_asset_summary(list)),
          eoy_list |-> Some(_build_end_of_year_balances(d, end_dt(y))),
          cap_gain_txs |-> Some(_build_capital_gains_transactions(list)),
          income_txs |-> Some(_build_income_transactions(list)),
          gifts_lost |-> Some(_build_gifts_donations_lost(list)),
          expense_list |-> Some(_build_expenses_list(list)),
          data_sources_list |-> Some(_gather_data_sources(list)),
          all_txn_data |-> Some(_build_all_transactions_data(list)),
          lot_disposals_data |-> Some(_build_lot_disposals_for_period(d, start_dt(y), end_dt(y))),
          ledger_entries_data |-> Some(_build_ledger_entries_for_period(d, start_dt(y), end_dt(y))),
          account_balances_data |-> Some(get_all_account_balances(d)),
          overall_calcs |-> Some(get_gains_and_losses(d)),
          average_btc_basis |-> Some(get_average_cost_basis(d))])

Overlapped(c) == \E i \in 1..Len(trace[c]) : trace[c][i] = <<"overlapped", "relot">>

ResOrder ==
    <<"gains_dict", "income_dict", "asset_list", "eoy_list", "cap_gain_txs",
      "income_txs", "gifts_lost", "expense_list", "data_sources_list",
      "all_txn_data", "lot_disposals_data", "ledger_entries_data",
      "account_balances_data", "overall_calcs", "average_btc_basis">>

\* the first result that a failure of the named upstream call leaves unset
FirstUnset ==
    [relot |-> 1, transactions |-> 1, open_lots |-> 4, lot_disposals |-> 11,
     ledger_entries |-> 12, account_balances |-> 13, gains_and_losses |-> 14,
     average_cost_basis |-> 15]

\* C7: when re-lotting or a query fails the call ends in that error, returns
\* no dataset, and executes no later step: the results of the failed step
\* and of all steps after it are never computed.
C7_FailureEndsTheCall ==
    \A c \in Calls :
        /\ err[c] # None => pc[c] = "error"
        /\ pc[c] = "error" =>
              /\ err[c] # None
              /\ ret[c] = None
              /\ LET t == OwnEvents(c)
                     failed == Val(err[c])[2]
                 IN /\ t # <<>>
                    /\ t[Len(t)][2] = failed
                    /\ \A k \in FirstUnset[failed]..Len(ResOrder) :
                           res[c][ResOrder[k]] = None

\* a call failed in the lot-disposal query after it had built ten results
C7_Witness ==
    \E c \in Calls :
        /\ pc[c] = "error"
        /\ err[c] = Some(<<"raised by", "lot_disposals">>)
        /\ res[c].all_txn_data # None
        /\ ret[c] = None

SameSnapshot(a, b) ==
    /\ pc[a] = "done" /\ pc[b] = "done"
    /\ a # b
    /\ year[a] = year[b]
    /\ seen[a] = seen[b]

\* C8 as stated: two calls for the same year over the same ledger snapshot
\* return identical datasets, report_date included.
C8_TwoRunsIdentical ==
    \A a, b \in Calls : SameSnapshot(a, b) => ret[a] = ret[b]

WithoutReportDate(d) == [k \in DOMAIN d \ {"report_date"} |-> d[k]]

\* C8 amended: two calls for the same year over the same ledger snapshot
\* return datasets that agree in every top-level key other than report_date;
\* report_date is the time at which each call builds its dataset.
C8_TwoRunsIdenticalButReportDate ==
    \A a, b \in Calls : SameSnapshot(a, b) =>
        /\ WithoutReportDate(Val(ret[a])) = WithoutReportDate(Val(ret[b]))
        /\ \E t \in 0..clock : Val(ret[a]).report_date = ReportDate(t)

\* two calls for a year with a disposal returned at different times
C8_Witness ==
    \E a, b \in Calls :
        /\ SameSnapshot(a, b)
        /\ Val(ret[a]).capital_gains_summary.number_of_disposals > 0
        /\ Val(ret[a]).report_date # Val(ret[b]).report_date

ZeroBlock == [proceeds |-> FZero, basis |-> FZero, gain |-> FZero]

\* C9: for a year without transactions on a ledger without lots the dataset
\* has zeroed summaries (capital gains, income, no non-zero asset figure),
\* empty detail lists and empty data sources.
C9_EmptyYearIsAllZero ==
    \A c \in Calls : (pc[c] = "done" /\ txns[c] = <<>> /\ db.lots = {}) =>
        LET d == Val(ret[c])
        IN /\ d.capital_gains_summary =
                 [number_of_disposals |-> 0, short_term |-> ZeroBlock,
                  long_term |-> ZeroBlock, total |-> ZeroBlock]
           /\ d.income_summary =
                 [Mining |-> FZero, Reward |-> FZero, Other |-> FZero, Total |-> FZero]
           /\ \A i \in 1..Len(d.asset_summary) :
                  /\ d.asset_summary[i].profit = FZero
                  /\ d.asset_summary[i].loss = FZero
                  /\ d.asset_summary[i].net = FZero
           /\ d.capital_gains_transactions = <<>>
           /\ d.income_transactions = <<>>
           /\ d.gifts_donations_lost = <<>>
           /\ d.expenses = <<>>
           /\ d.all_transactions = <<>>
           /\ d.lot_disposals = <<>>
           /\ d.ledger_entries = <<>>
           /\ d.data_sources = <<>>

(***************************************************************************)
(* End-of-year balances.                                                   *)
(***************************************************************************)
Qualifying(d, cutoff) ==
    {lot \in d.lots : /\ lot.remaining_btc > 0
                      /\ lot.acquired_date # None
                      /\ Val(lot.acquired_date) <= cutoff}

HasEoy(c) == res[c].eoy_list # None
EoyOf(c) == Val(res[c].eoy_list)
LotOfRow(row) == CHOOSE lot \in db.lots : Some(lot.id) = row.lot_id

\* one row per qualifying lot in ascending acquired_date order, then TOTAL
EoyShape(c) ==
    LET rows == EoyOf(c)
        n == Len(rows)
        Q == Qualifying(db, end_dt(year[c]))
    IN /\ n = Cardinality(Q) + 1
       /\ rows[n].asset = "TOTAL"
       /\ rows[n].lot_id = None
       /\ \A i \in 1..(n - 1) :
              /\ rows[i].asset = "BTC"
              /\ \E lot \in Q : rows[i].lot_id = Some(lot.id)
       /\ \A lot \in Q : Cardinality({i \in 1..(n - 1) : rows[i].lot_id = Some(lot.id)}) = 1
       /\ \A i, j \in 1..(n - 1) :
              i < j => Val(LotOfRow(rows[i]).acquired_date) <= Val(LotOfRow(rows[j]).acquired_date)

\* the emitted numbers of the rows before the TOTAL row, added as floats
RECURSIVE FSum(_, _, _)
FSum(rows, field, n) ==
    IF n = 0 THEN FZero ELSE FAdd(FSum(rows, field, n - 1), rows[n][field])

\* C10 as stated: one row per lot with remaining_btc > 0 acquired up to the
\* cutoff, ascending by acquired_date, then one TOTAL row (lot_id null) whose
\* quantity, cost and value equal the sums of those fields of the lot rows.
C10_TotalRowSumsTheRows ==
    \A c \in Calls : HasEoy(c) =>
        LET rows == EoyOf(c)
            n == Len(rows)
        IN /\ EoyShape(c)
           /\ rows[n].quantity = FSum(rows, "quantity", n - 1)
           /\ rows[n].cost = FSum(rows, "cost", n - 1)
           /\ rows[n].value = FSum(rows, "value", n - 1)

\* C10 amended: the rows are as stated, each lot row carrying the floats of
\* the lot's remaining quantity, partial cost and value, and the TOTAL row
\* carries the floats of the exact decimal sums of these three amounts over
\* the lots (zero without lots), not the sums of the emitted floats.
C10_TotalRowIsFloatOfExactSums ==
    \A c \in Calls : HasEoy(c) =>
        LET rows == EoyOf(c)
            n == Len(rows)
            lot == [i \in 1..(n - 1) |-> LotOfRow(rows[i])]
            qty == [i \in 1..(n - 1) |-> lot[i].remaining_btc]
            cost == [i \in 1..(n - 1) |-> LotPartialCost(lot[i])]
            value == [i \in 1..(n - 1) |-> LotCurValue(lot[i])]
        IN /\ EoyShape(c)
           /\ \A i \in 1..(n - 1) :
                  /\ rows[i].quantity = BtcFloat(qty[i])
                  /\ rows[i].cost = UsdFloat(cost[i])
                  /\ rows[i].value = UsdFloat(value[i])
           /\ rows[n].quantity = BtcFloat(SumFn(qty, 1..(n - 1)))
           /\ rows[n].cost = UsdFloat(SumFn(cost, 1..(n - 1)))
           /\ rows[n].value = UsdFloat(SumFn(value, 1..(n - 1)))

\* two open lots with a cost basis whose emitted quantities do not
\* add up to the emitted total
C10_Witness ==
    \E c \in Calls :
        /\ HasEoy(c)
        /\ Len(EoyOf(c)) = 3
        /\ EoyOf(c)[3].quantity # FSum(EoyOf(c), "quantity", 2)
        /\ EoyOf(c)[3].cost # FZero

(***************************************************************************)
(* The valuation price.                                                    *)
(***************************************************************************)
\* C11: when the valuation price held for the cutoff is malformed the call
\* fails as a whole with a DataIntegrityError (no end-of-year balances are
\* built and no dataset is returned); with a numeric price no call ends in
\* that error, whatever fields of the records are null.
C11_MalformedPriceFailsTheCall ==
    \A c \in Calls :
        /\ price_feed[1] = "malformed" =>
              /\ res[c].eoy_list = None
              /\ ret[c] = None
        /\ price_feed[1] = "numeric" =>
              (err[c] = None \/ Val(err[c])[1] # "DataIntegrityError")

(***************************************************************************)
(* The transaction list of a call.                                         *)
(***************************************************************************)
\* the call has fetched its transaction list
Fetched(c) == \E i \in 1..Len(trace[c]) : trace[c][i] = <<"call", "transactions">>

\* the year a time lies in, and whether it lies after Dec 31 23:59:59 of it
YearOf(t) == t \div TicksPerYear
AfterLastSecond(t) == t % TicksPerYear = TicksPerYear - 1

OfYear(d, y) ==
    {tx \in d.txns : /\ tx.timestamp # None
                     /\ YearOf(Val(tx.timestamp)) = y
                     /\ ~AfterLastSecond(Val(tx.timestamp))}

PosOf(list, id) == CHOOSE i \in 1..Len(list) : list[i].id = id

\* ids is a sequence of distinct ids of the list, in the order of the list
SubsequenceOf(ids, list) ==
    /\ \A k \in 1..Len(ids) : \E i \in 1..Len(list) : list[i].id = ids[k]
    /\ \A k, l \in 1..Len(ids) : k < l => PosOf(list, ids[k]) < PosOf(list, ids[l])

RowIds(rows) == [k \in 1..Len(rows) |-> rows[k].tx_id]

C13_DataSourcesUniqueSorted ==
    \A c \in Calls : res[c].data_sources_list # None =>
        LET out == Val(res[c].data_sources_list)
            list == txns[c]
        IN /\ \A i, j \in 1..Len(out) : i < j => StrLess(out[i], out[j])
           /\ \A i, j \in 1..Len(out) : i # j => out[i] # out[j]
           /\ {out[i] : i \in 1..Len(out)} =
                 {Val(list[k].source) : k \in {n \in 1..Len(list) :
                                                 /\ list[n].source # None
                                                 /\ Val(list[n].source) # <<>>}}

\* two sources met in descending order are listed in ascending order
C13_Witness ==
    \E c \in Calls :
        /\ res[c].data_sources_list # None
        /\ Len(txns[c]) = 2
        /\ Len(Val(res[c].data_sources_list)) = 2
        /\ txns[c][1].source = Some(Val(res[c].data_sources_list)[2])

(***************************************************************************)
(* Detail rows against the summaries.                                      *)
(***************************************************************************)
\* C14: capital_gains_transactions has exactly one row for each Sell or
\* Withdrawal with a non-null realized gain, a zero gain included, and no
\* other row, so its length equals number_of_disposals.
C14_DetailRowsAreTheDisposals ==
    \A c \in Calls : (HasGains(c) /\ res[c].cap_gain_txs # None) =>
        LET rows == Val(res[c].cap_gain_txs)
            list == txns[c]
        IN /\ TxIds(rows) = {list[i].id : i \in DisposalIdx(list)}
           /\ Len(rows) = Cardinality(DisposalIdx(list))
           /\ Len(rows) = GainsOf(c).number_of_disposals

RECURSIVE GCD(_, _)
GCD(a, b) == IF b = 0 THEN a ELSE GCD(b, a % b)

\* n / d rounded to an integer, an exact half rounding toward zero (n, d >= 0)
HalfDownQuotient(n, d) == (n \div d) + (IF 2 * (n % d) > d THEN 1 ELSE 0)

\* amount * (part / whole) in exact arithmetic, rounded half-down
ExactShare(amount, part, whole) ==
    LET g == GCD(part, whole)
    IN HalfDownQuotient(amount * (part \div g), whole \div g)

ExactPartialCost(lot) ==
    IF lot.total_btc # None /\ Val(lot.total_btc) > 0
    THEN ExactShare(OrZero(lot.cost_basis_usd), lot.remaining_btc, Val(lot.total_btc))
    ELSE OrZero(lot.cost_basis_usd)

ExactValue(lot) == ExactShare(eoy_price, lot.remaining_btc, BtcScale)

\* C15: the cost of a lot row is cost_basis_usd (null as zero) times
\* remaining_btc / total_btc rounded to the cent half-down, the fraction
\* being 1 when total_btc is zero or absent; its value is remaining_btc times
\* the price rounded to the cent half-down; the TOTAL row's cost and value
\* are the sums of the rounded amounts of the lots.
C15_RowAmountsRoundedHalfDown ==
    \A c \in Calls : HasEoy(c) =>
        LET rows == EoyOf(c)
            n == Len(rows)
            lot == [i \in 1..(n - 1) |-> LotOfRow(rows[i])]
            cost == [i \in 1..(n - 1) |-> ExactPartialCost(lot[i])]
            value == [i \in 1..(n - 1) |-> ExactValue(lot[i])]
        IN /\ \A i \in 1..(n - 1) :
                  /\ rows[i].cost = UsdFloat(cost[i])
                  /\ rows[i].value = UsdFloat(value[i])
           /\ rows[n].cost = UsdFloat(SumFn(cost, 1..(n - 1)))
           /\ rows[n].value = UsdFloat(SumFn(value, 1..(n - 1)))

\* C16: a null numeric field of a record never makes a call fail (a call
\* ends in an error only when an upstream call raised), and is emitted as
\* zero in the rows of all_transactions.
C16_NullFieldsNeverFail ==
    \A c \in Calls :
        /\ err[c] # None => Val(err[c])[1] = "raised by"
        /\ res[c].all_txn_data # None =>
              \A i \in 1..Len(txns[c]) :
                  /\ txns[c][i].amount = None =>
                         Val(res[c].all_txn_data)[i].amount = FZero
                  /\ txns[c][i].proceeds_usd = None =>
                         Val(res[c].all_txn_data)[i].proceeds_usd = FZero

\* the bucket of income_summary a deposit is added to
BucketOf(list, i) ==
    IF i \in MiningIdx(list) THEN "Mining"
    ELSE IF i \in RewardIdx(list) THEN "Reward" ELSE "Other"

\* C19: income_transactions has one row per Deposit with a non-empty
\* source, and the type of each row names the bucket of income_summary the
\* deposit was added to (Mining, Reward or Other).
C19_RowTypeIsTheBucket ==
    \A c \in Calls : res[c].income_txs # None =>
        LET rows == Val(res[c].income_txs)
            list == txns[c]
        IN /\ TxIds(rows) = {list[i].id : i \in DepositIdx(list)}
           /\ Len(rows) = Cardinality(DepositIdx(list))
           /\ \A k \in 1..Len(rows) :
                  \A i \in DepositIdx(list) :
                      list[i].id = rows[k].tx_id => rows[k].type = BucketOf(list, i)

(***************************************************************************)
(* Gifts, donations, losses and expenses.                                  *)
(***************************************************************************)
\* the string is the word, letter case aside
SameWord(word, str) ==
    /\ Len(str) = Len(word)
    /\ \A k \in 1..Len(word) : LowerChar(str[k]) = word[k]

WithdrawalIdx(list, words) ==
    {i \in Idx(list) : /\ list[i].type = "Withdrawal"
                       /\ list[i].purpose # None
                       /\ \E w \in words : SameWord(w, Val(list[i].purpose))}

\* C18: gifts_donations_lost holds exactly the Withdrawals whose purpose is,
\* letter case aside, "gift", "donation" or "lost", and expenses exactly those
\* whose purpose is "expenses"; a purpose that only contains such a word, a
\* null or empty purpose and a transaction of another type never match, and
\* no transaction is in both lists.
C18_ExactPurposeMatch ==
    \A c \in Calls : (res[c].gifts_lost # None /\ res[c].expense_list # None) =>
        LET gifts == Val(res[c].gifts_lost)
            expenses == Val(res[c].expense_list)
            list == txns[c]
            G == WithdrawalIdx(list, {s_gift, s_donation, s_lost})
            E == WithdrawalIdx(list, {s_expenses})
        IN /\ TxIds(gifts) = {list[i].id : i \in G}
           /\ Len(gifts) = Cardinality(G)
           /\ TxIds(expenses) = {list[i].id : i \in E}
           /\ Len(expenses) = Cardinality(E)
           /\ TxIds(gifts) \cap TxIds(expenses) = {}

\* a withdrawal for a "gift card" next to a "Lost" one: only the latter is listed
C18_Witness ==
    \E c \in Calls :
        /\ res[c].gifts_lost # None
        /\ res[c].expense_list # None
        /\ Len(txns[c]) = 2
        /\ txns[c][1].purpose = Some(Str_gift_card)
        /\ txns[c][2].purpose = Some(Str_Lost)
        /\ TxIds(Val(res[c].gifts_lost)) = {2}

(***************************************************************************)
(* The call reads the ledger and writes nothing but its own locals.        *)
(***************************************************************************)
\* C17: the only step of a call that changes the ledger (any record or the
\* set of records) is the return of re-lotting, so the ledger a call leaves
\* is the one re-lotting left; and a call counts its disposals from zero,
\* over its own transaction list.
C17_OnlyRelotWritesTheLedger ==
    [][/\ db' # db => \E c \in Calls : pc[c] = "relotting" /\ pc'[c] = "q_txns"
       /\ \A c \in Calls :
              res'[c].gains_dict # res[c].gains_dict =>
                  Val(res'[c].gains_dict).number_of_disposals
                      = Cardinality(DisposalIdx(txns[c]))]_vars

\* a call returned from a ledger with lots and a disposal, all its queries
\* having read the ledger as it still is
C17_Witness ==
    \E c \in Calls :
        /\ pc[c] = "done"
        /\ db.lots # {}
        /\ seen[c] = {db}
        /\ Val(ret[c]).capital_gains_summary.number_of_disposals > 0

(***************************************************************************)
(* The open quantity of a year end, and the disposals made after it.       *)
(***************************************************************************)
\* the ledger as it was at the cutoff: the transactions on or before it,
\* re-lotted
LedgerAsOf(d, cutoff) ==
    recalculate_all_transactions(
        Loaded({tx \in d.txns : Val(tx.timestamp) <= cutoff}))

\* C20: the end_of_year_balances of year Y are those of the ledger as of the
\* cutoff of Y: transactions after the cutoff, disposals of lots acquired
\* before it included, change no row, quantity, cost or value.
C20_EoyAsOfCutoff ==
    \A c \in Calls :
        pc[c] = "done" =>
            Val(ret[c]).end_of_year_balances
                = _build_end_of_year_balances(LedgerAsOf(db, end_dt(year[c])),
                                              end_dt(year[c]))

\* a returned call for a year whose lot was open at the cutoff and has been
\* disposed of since
C20_LaterDisposalSeen ==
    \E c \in Calls :
        /\ pc[c] = "done"
        /\ \E tx \in db.txns : Val(tx.timestamp) > end_dt(year[c]) /\ tx.type = "Sell"
        /\ OpenLotsAsOf(LedgerAsOf(db, end_dt(year[c])), end_dt(year[c])) # <<>>
        /\ OpenLotsAsOf(db, end_dt(year[c])) = <<>>
====
